---- MODULE Spec2Model ----
(***************************************************************************)
(* State-machine model of src/script.js (German Learning App core logic):  *)
(* the localStorage wrapper, language handling, per-day progress, the      *)
(* debounced notes autosave and the notes-panel toggle.                    *)
(*                                                                         *)
(* A localStorage item is modelled as an option: <<>> is getItem's null,   *)
(* <<v>> is the stored string v.  A day identifier "1", "2", ... is the    *)
(* integer 1, 2, ...; a note is a sequence of characters; the JSON text of *)
(* the progress object is a sequence of tokens.  Pure styling (opacity,    *)
(* transform, colours) and text-to-speech carry no state any property here *)
(* reads and are left out.                                                 *)
(***************************************************************************)
EXTENDS Integers, Sequences, FiniteSets, TLC

(* ------------------------------ bounds -------------------------------- *)
MaxSaveTimers == 2
MaxHideTimers == 2

(* ----------------------------- input values -------------------------- *)
\* The notes a user types: the empty note and a non-empty one.
Notes == {<<>>, <<"a">>}
\* The day identifiers "1" and "2" of the pages' data-day attributes.
Days == {1, 2}
(* --------------------------- program constants ------------------------ *)
DefaultLang == "en"
Langs == {"en", "hi"}
States == {"incomplete", "in-progress", "completed"}
Labels ==
  [l \in Langs |->
     IF l = "en"
     THEN [s \in States |->
             CASE s = "completed"   -> "Status: Completed"
               [] s = "in-progress" -> "Status: In Progress"
               [] OTHER             -> "Status: Incomplete"]
     ELSE [s \in States |->
             CASE s = "completed"   -> "sthiti: poora"
               [] s = "in-progress" -> "sthiti: chal raha hai"
               [] OTHER             -> "sthiti: shuru nahin"]]

(* ------------------------------ page markup --------------------------- *)
LangButtons == {"en", "hi"}
SegmentStates == {"incomplete", "in-progress", "completed"}
MarkupNotesText == <<>>
MarkupPanelHidden == TRUE

(* ------------------------ JavaScript value helpers -------------------- *)
Null == <<>>
Undefined == "undefined"
EmptyObj == [k \in {} |-> Undefined]

Truthy(v) == v # Undefined /\ v # ""
OrElse(v, fallback) == IF Truthy(v) THEN v ELSE fallback
Lookup(obj, k) == IF k \in DOMAIN obj THEN obj[k] ELSE Undefined
Put(obj, k, v) == [x \in (DOMAIN obj) \cup {k} |-> IF x = k THEN v ELSE obj[x]]

(* JSON.stringify of an object with integer-like keys: "{", then the       *)
(* entries in ascending key order, then "}".  A token is <<key, string>>;  *)
(* the braces are the tokens <<0, "{">> and <<0, "}">>.                    *)
Min(S) == CHOOSE x \in S : \A y \in S : x <= y
RECURSIVE Entries(_, _)
Entries(obj, keys) ==
  IF keys = {} THEN <<>>
  ELSE LET k == Min(keys) IN <<<<k, obj[k]>>>> \o Entries(obj, keys \ {k})
JSONstringify(obj) == <<<<0, "{">>>> \o Entries(obj, DOMAIN obj) \o <<<<0, "}">>>>

(* JSON.parse of such a text: a later entry of a key wins.                 *)
JSONparse(text) ==
  LET body == SubSeq(text, 2, Len(text) - 1)
      keys == {body[i][1] : i \in 1..Len(body)}
      Last(k) == CHOOSE i \in 1..Len(body) :
                   /\ body[i][1] = k
                   /\ \A j \in 1..Len(body) : body[j][1] = k => j <= i
  IN [k \in keys |-> body[Last(k)][2]]

(* ---------------------------- storage wrapper ------------------------- *)
\* storage.get: the parsed item, or the fallback when the item is absent or
\* the empty string.  The app only ever stores JSON.stringify's output under
\* the progress key, so JSON.parse's failure (the catch) is not reached.
StorageGet(item, fallback) ==
  IF item # Null /\ item[1] # <<>> THEN JSONparse(item[1]) ELSE fallback

\* storage.set: the item after the call; a throwing setItem (ok = FALSE) is
\* caught and leaves the item as it was.
StorageSet(item, value, ok) ==
  IF ok THEN <<JSONstringify(value)>> ELSE item

(* ------------------------------ app logic ----------------------------- *)
\* Mutant: the saved preference is ignored.
InitLanguageLangDefault(savedLang) == DefaultLang

\* initLanguage: the saved preference when it is "en" or "hi", else the default.
InitLanguageLang(savedLang) ==
  IF savedLang \in {<<"en">>, <<"hi">>} THEN savedLang[1] ELSE DefaultLang

\* applyLanguage: the language buttons left with the class "active".
ActiveButtons(lang) == {b \in LangButtons : b = lang}

\* Mutant: the class is toggled the wrong way round.
ActiveSegmentsInverted(state) == {seg \in SegmentStates : seg # state}

\* updateCardUI: the segments of a card left with the class "active".
ActiveSegments(state) == {seg \in SegmentStates : seg = state}

\* initIndexProgress: the state a card is rendered with on load.
CardInitialState(item, day) ==
  OrElse(Lookup(StorageGet(item, EmptyObj), day), "incomplete")

\* Mutant: the object is rebuilt from scratch instead of read back.
SaveProgressFresh(item, day, state, ok) ==
  StorageSet(item, Put(EmptyObj, day, state), ok)

\* saveProgress: read-modify-write of the whole progress object.
SaveProgress(item, day, state, ok) ==
  StorageSet(item, Put(StorageGet(item, EmptyObj), day, state), ok)

\* Mutant: a first visit stores the default state.
AutoMarkIncomplete == "incomplete"

\* initDayPage: the state a first visit stores.
AutoMarkState == "in-progress"

\* Mutant: the test for a stored "incomplete" is missing.
NeedsAutoMarkAbsentOnly(item, day) ==
  ~Truthy(Lookup(StorageGet(item, EmptyObj), day))

\* initDayPage: is the day auto-marked "in-progress"?
NeedsAutoMark(item, day) ==
  LET currentStatus == Lookup(StorageGet(item, EmptyObj), day)
  IN  ~Truthy(currentStatus) \/ currentStatus = "incomplete"

\* Mutant: the label is always taken from the English table.
DayStatusLabelEnglish(item, lang, day) ==
  Labels["en"][OrElse(Lookup(StorageGet(item, EmptyObj), day), "in-progress")]

\* updateDayStatusLabel: the text every status badge receives.
DayStatusLabel(item, lang, day) ==
  LET state == OrElse(Lookup(StorageGet(item, EmptyObj), day), "in-progress")
  IN  IF state \in DOMAIN Labels[lang] /\ Truthy(Labels[lang][state])
      THEN Labels[lang][state]
      ELSE Labels["en"][state]

\* Mutant: the saved note is not loaded.
LoadNotesNever(savedNotes, value) == value

\* initNotes: the textarea's value after the saved note is loaded.
LoadNotes(savedNotes, value) ==
  IF savedNotes # Null /\ savedNotes[1] # <<>> THEN savedNotes[1] ELSE value

\* setTimeout's return value: an id no pending timer has and that differs
\* from the handle the debounce still holds (browsers never reuse an id; all
\* the code can observe of an id is which timer clearTimeout cancels).
NewTimerId(timers, id) ==
  Min({n \in 1..(Len(timers) + 2) :
         n # id /\ \A i \in 1..Len(timers) : timers[i] # n})

\* clearTimeout: a pending timer with that id is dropped.
ClearTimeout(timers, id) == SelectSeq(timers, LAMBDA t : t # id)

\* Mutant: the pending timer is not cancelled.
DebounceCallNoClear(timers, id, newId) == Append(timers, newId)

\* debounce's executedFunction: cancel the pending timer, schedule a new one.
DebounceCall(timers, id, newId) == Append(ClearTimeout(timers, id), newId)

(* -------------------------------- state ------------------------------- *)
VARIABLES
  lsLang,         \* localStorage["deCourseLang"]
  lsProgress,     \* localStorage["deCourseProgress"]
  lsNotes,        \* localStorage["deCourseNotesDay_" + d], per day d
  quotaFull,      \* localStorage.setItem throws (quota exceeded)
  page,           \* body.dataset.page
  curDay,         \* body.dataset.day (0 on the index page)
  loaded,         \* DOMContentLoaded has run app.init()
  currentLang,    \* this.state.currentLang
  bodyLang,       \* body's data-lang attribute ("" = not set)
  activeLangBtns, \* language buttons with class "active"
  cardState,      \* card.dataset.state per day card
  segActive,      \* per day card, the segments with class "active"
  badgeText,      \* textContent of the status badges
  notesText,      \* textarea.value
  timeout,        \* debounce's closure variable (0 = undefined)
  saveTimers,     \* ids of the pending 500 ms save timers, oldest first
  panelHidden,    \* the notes panel has the attribute "hidden"
  toggleOpen,     \* the toggle button has the class "open"
  hideTimers,     \* number of pending 300 ms hide timers
  lastOp,         \* history: the handler that ran last and its arguments
  opSetItems,     \* history: localStorage.setItem calls made by that handler
  escaped,        \* history: an exception escaped that handler
  lastSaved,      \* history: per day, the state last saved ("never" if none)
  burstEvents,    \* history: input events of the current burst (0: none since
                  \* the page loaded, 1: one, 2: two or more)
  burstWrites     \* history: note writes since the current burst began

storageVars == <<lsLang, lsProgress, lsNotes>>
langVars == <<currentLang, bodyLang, activeLangBtns>>
indexVars == <<cardState, segActive>>
notesVars == <<notesText, timeout, saveTimers, burstEvents, burstWrites>>
panelVars == <<panelHidden, toggleOpen, hideTimers>>
vars == <<lsLang, lsProgress, lsNotes, quotaFull, page, curDay, loaded,
          currentLang, bodyLang, activeLangBtns, cardState, segActive,
          badgeText, notesText, timeout, saveTimers, panelHidden,
          toggleOpen, hideTimers, lastOp, opSetItems, escaped, lastSaved,
          burstEvents, burstWrites>>

\* op: the handler; day, val: its arguments; prev: what it found before it ran
\* (init: the day's stored status, setLanguage: currentLang, segmentClick:
\* the card's state).
Op(name, day, val, prev) == [op |-> name, day |-> day, val |-> val, prev |-> prev]

Init ==
  /\ lsLang = Null
  /\ lsProgress = Null
  /\ lsNotes = [d \in Days |-> Null]
  /\ quotaFull = FALSE
  /\ \E d \in {0} \cup Days :
       /\ page = IF d = 0 THEN "index" ELSE "day"
       /\ curDay = d
  /\ loaded = FALSE
  /\ currentLang = DefaultLang
  /\ bodyLang = ""
  /\ activeLangBtns = {}
  /\ cardState = [d \in Days |-> ""]
  /\ segActive = [d \in Days |-> {}]
  /\ badgeText = ""
  /\ notesText = MarkupNotesText
  /\ timeout = 0
  /\ saveTimers = <<>>
  /\ panelHidden = MarkupPanelHidden
  /\ toggleOpen = FALSE
  /\ hideTimers = 0
  /\ lastOp = Op("constructor", 0, "", "")
  /\ opSetItems = 0
  /\ escaped = FALSE
  /\ lastSaved = [d \in Days |-> "never"]
  /\ burstEvents = 0
  /\ burstWrites = 0

(* ------------------------------- actions ------------------------------ *)
\* The browser opens a page: a fresh document and a freshly constructed
\* app; pending timers of the old document are gone, localStorage stays.
Navigate(d) ==
  /\ page' = IF d = 0 THEN "index" ELSE "day"
  /\ curDay' = d
  /\ loaded' = FALSE
  /\ currentLang' = DefaultLang
  /\ bodyLang' = ""
  /\ activeLangBtns' = {}
  /\ cardState' = [x \in Days |-> ""]
  /\ segActive' = [x \in Days |-> {}]
  /\ badgeText' = ""
  /\ notesText' = MarkupNotesText
  /\ timeout' = 0
  /\ saveTimers' = <<>>
  /\ panelHidden' = MarkupPanelHidden
  /\ toggleOpen' = FALSE
  /\ hideTimers' = 0
  /\ lastOp' = Op("constructor", 0, "", "")
  /\ opSetItems' = 0
  /\ escaped' = FALSE
  /\ burstEvents' = 0
  /\ burstWrites' = 0
  /\ UNCHANGED <<storageVars, quotaFull, lastSaved>>

\* DOMContentLoaded: app.init() = initLanguage, then initIndexProgress on the
\* index page or initDayPage and initNotes on a day page.
AppInit ==
  /\ ~loaded
  /\ loaded' = TRUE
  /\ LET lang == InitLanguageLang(lsLang)
         mark == page = "day" /\ NeedsAutoMark(lsProgress, curDay)
         savedNotes == IF page = "day" THEN lsNotes[curDay] ELSE Null
     IN  /\ currentLang' = lang
         /\ bodyLang' = lang
         /\ activeLangBtns' = ActiveButtons(lang)
         /\ cardState' = IF page = "index"
                         THEN [d \in Days |-> CardInitialState(lsProgress, d)]
                         ELSE cardState
         /\ segActive' = IF page = "index"
                         THEN [d \in Days |->
                                 ActiveSegments(CardInitialState(lsProgress, d))]
                         ELSE segActive
         /\ lsProgress' = IF mark
                          THEN SaveProgress(lsProgress, curDay, AutoMarkState,
                                            ~quotaFull)
                          ELSE lsProgress
         /\ lastSaved' = IF mark /\ ~quotaFull
                         THEN [lastSaved EXCEPT ![curDay] = AutoMarkState]
                         ELSE lastSaved
         /\ opSetItems' = IF mark THEN 1 ELSE 0
         /\ badgeText' = IF page = "day"
                         THEN DayStatusLabel(lsProgress', lang, curDay)
                         ELSE badgeText
         /\ notesText' = LoadNotes(savedNotes, notesText)
  /\ lastOp' = Op("init", curDay, "",
                 IF page = "day"
                 THEN Lookup(StorageGet(lsProgress, EmptyObj), curDay)
                 ELSE "")
  /\ escaped' = FALSE
  /\ UNCHANGED <<lsLang, lsNotes, quotaFull, page, curDay, timeout, saveTimers,
                 burstEvents, burstWrites, panelVars>>

\* Click on a language button: setLanguage(lang).  storage.setString has no
\* try/catch: when setItem throws, the handler ends after its first line.
SetLanguage(lang) ==
  /\ loaded
  /\ currentLang' = lang
  /\ lastOp' = Op("setLanguage", curDay, lang, currentLang)
  /\ opSetItems' = 1
  /\ escaped' = quotaFull
  /\ IF quotaFull
     THEN UNCHANGED <<lsLang, bodyLang, activeLangBtns, badgeText>>
     ELSE /\ lsLang' = <<lang>>
          /\ bodyLang' = lang
          /\ activeLangBtns' = ActiveButtons(lang)
          /\ badgeText' = IF page = "day"
                          THEN DayStatusLabel(lsProgress, lang, curDay)
                          ELSE badgeText
  /\ UNCHANGED <<lsProgress, lsNotes, quotaFull, page, curDay, loaded,
                 indexVars, notesVars, panelVars, lastSaved>>

\* Click on the segment with state value s of day d's card (index page).
SegmentClick(d, s) ==
  /\ loaded
  /\ page = "index"
  /\ lsProgress' = SaveProgress(lsProgress, d, s, ~quotaFull)
  /\ lastSaved' = IF quotaFull THEN lastSaved ELSE [lastSaved EXCEPT ![d] = s]
  /\ cardState' = [cardState EXCEPT ![d] = s]
  /\ segActive' = [segActive EXCEPT ![d] = ActiveSegments(s)]
  /\ lastOp' = Op("segmentClick", d, s, cardState[d])
  /\ opSetItems' = 1
  /\ escaped' = FALSE
  /\ UNCHANGED <<lsLang, lsNotes, quotaFull, page, curDay, loaded, langVars,
                 badgeText, notesVars, panelVars>>

\* Input event on the notes textarea: the debounced saveHandler is called.
NotesInput(v) ==
  /\ loaded
  /\ page = "day"
  /\ Len(saveTimers) < MaxSaveTimers
  /\ notesText' = v
  /\ saveTimers' = DebounceCall(saveTimers, timeout, NewTimerId(saveTimers, timeout))
  /\ timeout' = NewTimerId(saveTimers, timeout)
  /\ burstEvents' = IF saveTimers = <<>> THEN 1 ELSE 2
  /\ burstWrites' = IF saveTimers = <<>> THEN 0 ELSE burstWrites
  /\ lastOp' = Op("input", curDay, "", "")
  /\ opSetItems' = 0
  /\ escaped' = FALSE
  /\ UNCHANGED <<storageVars, quotaFull, page, curDay, loaded, langVars,
                 indexVars, badgeText, panelVars, lastSaved>>

\* The oldest pending save timer fires: later() clears `timeout` and writes
\* the textarea's value with storage.setString (no try/catch).
SaveTimerFires ==
  /\ saveTimers # <<>>
  /\ saveTimers' = ClearTimeout(Tail(saveTimers), timeout)
  /\ lsNotes' = IF quotaFull THEN lsNotes
                ELSE [lsNotes EXCEPT ![curDay] = <<notesText>>]
  /\ burstWrites' = burstWrites + 1
  /\ lastOp' = Op("saveTimer", curDay, "", "")
  /\ opSetItems' = 1
  /\ escaped' = quotaFull
  /\ UNCHANGED <<lsLang, lsProgress, quotaFull, page, curDay, loaded, langVars,
                 indexVars, badgeText, notesText, timeout, burstEvents,
                 panelVars, lastSaved>>

\* Click on the notes toggle.
ToggleClick ==
  /\ loaded
  /\ page = "day"
  /\ panelHidden \/ hideTimers < MaxHideTimers
  /\ IF panelHidden
     THEN /\ panelHidden' = FALSE
          /\ toggleOpen' = TRUE
          /\ hideTimers' = hideTimers
     ELSE /\ panelHidden' = panelHidden
          /\ toggleOpen' = FALSE
          /\ hideTimers' = hideTimers + 1
  /\ lastOp' = Op("toggleClick", curDay, "", "")
  /\ opSetItems' = 0
  /\ escaped' = FALSE
  /\ UNCHANGED <<storageVars, quotaFull, page, curDay, loaded, langVars,
                 indexVars, badgeText, notesVars, lastSaved>>

\* A pending 300 ms hide timer fires.
HideTimerFires ==
  /\ hideTimers > 0
  /\ panelHidden' = TRUE
  /\ hideTimers' = hideTimers - 1
  /\ lastOp' = Op("hideTimer", curDay, "", "")
  /\ opSetItems' = 0
  /\ escaped' = FALSE
  /\ UNCHANGED <<storageVars, quotaFull, page, curDay, loaded, langVars,
                 indexVars, badgeText, notesVars, toggleOpen, lastSaved>>

\* The origin's storage quota is used up: from now on setItem throws (the
\* app never removes an item, so the quota does not come back).
QuotaExceeded ==
  /\ ~quotaFull
  /\ quotaFull' = TRUE
  /\ UNCHANGED <<storageVars, page, curDay, loaded, langVars, indexVars,
                 badgeText, notesVars, panelVars, lastOp, opSetItems, escaped,
                 lastSaved>>

Next ==
  \/ \E d \in {0} \cup Days : Navigate(d)
  \/ AppInit
  \/ \E lang \in LangButtons : SetLanguage(lang)
  \/ \E d \in Days, s \in SegmentStates : SegmentClick(d, s)
  \/ \E v \in Notes : NotesInput(v)
  \/ SaveTimerFires
  \/ ToggleClick
  \/ HideTimerFires

NextFault == Next \/ QuotaExceeded

\* Normal operation: localStorage.setItem succeeds.
Spec == Init /\ [][Next]_vars

\* Operation with a storage quota that may run out at any time.
SpecFault == Init /\ [][NextFault]_vars

(* ================================ claims ============================== *)
StoredProgress == StorageGet(lsProgress, EmptyObj)
\* The state a day was last saved with; "incomplete" when it never was.
SavedOrDefault(d) == IF lastSaved[d] = "never" THEN "incomplete" ELSE lastSaved[d]

\* C1: after saveProgress(D, S), re-reading the progress map from storage the
\* way initIndexProgress does yields S for D and "incomplete" for every day
\* never written; a reloaded index page renders its cards with these states.
C1_ProgressRoundTrip ==
  \A d \in Days :
    /\ CardInitialState(lsProgress, d) = SavedOrDefault(d)
    /\ (loaded /\ page = "index") => cardState[d] = SavedOrDefault(d)

\* C1 witness: an index page reloaded after day 1 was saved as "completed"
\* and day 2 was never written.
C1_Witness ==
  /\ loaded /\ page = "index" /\ lastOp.op = "init"
  /\ lastSaved[1] = "completed" /\ cardState[1] = "completed"
  /\ lastSaved[2] = "never" /\ cardState[2] = "incomplete"

\* C2: initDayPage(D) run while D's stored state is absent or "incomplete"
\* leaves D stored as "in-progress" with exactly one storage write; run while
\* D is "completed" it writes nothing and leaves the stored map as it was.
C2_AutoMark ==
  [][AppInit /\ page = "day" =>
       LET before == Lookup(StoredProgress, curDay)
       IN  /\ before \in {Undefined, "incomplete"} =>
                /\ Lookup(StorageGet(lsProgress', EmptyObj), curDay) = "in-progress"
                /\ opSetItems' = 1
           /\ before = "completed" =>
                /\ lsProgress' = lsProgress
                /\ opSetItems' = 0]_vars

\* C2 witness: a day page loaded while the day was stored as "incomplete".
C2_Witness ==
  /\ loaded /\ page = "day" /\ lastOp.op = "init" /\ lastOp.prev = "incomplete"
  /\ opSetItems = 1
  /\ Lookup(StoredProgress, curDay) = "in-progress"

\* C6 as stated: every value stored in the progress map is "in-progress" or
\* "completed"; "incomplete" is never stored.
C6_IncompleteNeverStored ==
  \A d \in DOMAIN StoredProgress : StoredProgress[d] \in {"in-progress", "completed"}

\* C6 amended: every stored value is one of the three progress states, and a
\* page load never stores "incomplete": it leaves no day "incomplete" that was
\* not stored as "incomplete" before (only a segment click stores it).
C6_StoredStates ==
  [][LET new == StorageGet(lsProgress', EmptyObj)
     IN  /\ \A d \in DOMAIN new : new[d] \in States
         /\ AppInit =>
              \A d \in DOMAIN new :
                new[d] = "incomplete" => Lookup(StoredProgress, d) = "incomplete"]_vars

\* C6 witness: a click on an "incomplete" segment has stored "incomplete"
\* for a day that was "completed".
C6_Witness ==
  /\ lastOp.op = "segmentClick" /\ lastOp.val = "incomplete"
  /\ lastOp.prev = "completed"
  /\ Lookup(StoredProgress, lastOp.day) = "incomplete"

\* C9: a click on the segment with state S of day D's card stores S for D and
\* leaves exactly the segments with state S of that card active; every other
\* day's stored entry and every other card's state and active segments are
\* unchanged, and no entry of the progress map is removed.
C9_SegmentClickFrame ==
  [][\A d \in Days, s \in SegmentStates :
       SegmentClick(d, s) =>
         LET new == StorageGet(lsProgress', EmptyObj)
         IN  /\ Lookup(new, d) = s
             /\ cardState'[d] = s
             /\ segActive'[d] = {seg \in SegmentStates : seg = s}
             /\ DOMAIN StoredProgress \subseteq DOMAIN new
             /\ \A e \in Days \ {d} :
                  /\ Lookup(new, e) = Lookup(StoredProgress, e)
                  /\ cardState'[e] = cardState[e]
                  /\ segActive'[e] = segActive[e]]_vars

\* C9 witness: day 1's "completed" segment was clicked while day 2 was
\* stored as "in-progress" and day 1's card showed "in-progress".
C9_Witness ==
  /\ lastOp.op = "segmentClick" /\ lastOp.day = 1 /\ lastOp.val = "completed"
  /\ lastOp.prev = "in-progress"
  /\ Lookup(StoredProgress, 1) = "completed"
  /\ Lookup(StoredProgress, 2) = "in-progress"
  /\ segActive[1] = {"completed"} /\ segActive[2] = {"in-progress"}

\* C3: within a burst of input events (each arriving while the previous save
\* timer is pending) no note is written while a timer is pending; once the
\* burst's timer has fired exactly one write was made and the stored note is
\* the textarea's final value; never is more than one save timer pending.
C3_DebouncedSave ==
  /\ Len(saveTimers) <= 1
  /\ saveTimers # <<>> => burstWrites = 0
  /\ (loaded /\ page = "day" /\ burstEvents > 0 /\ saveTimers = <<>>) =>
       /\ burstWrites = 1
       /\ lsNotes[curDay] = <<notesText>>

\* C3 witness: a burst of two or more input events ending in "a" has been
\* saved by its single timer.
C3_Witness ==
  /\ loaded /\ page = "day" /\ lastOp.op = "saveTimer"
  /\ burstEvents = 2 /\ saveTimers = <<>> /\ burstWrites = 1
  /\ notesText = <<"a">> /\ lsNotes[curDay] = <<<<"a">>>>

\* C4: on a day page that has just loaded (no input yet), the textarea shows
\* exactly the note stored under the day's key, and is empty when that note
\* is the empty string.
C4_NotesRoundTrip ==
  (loaded /\ page = "day" /\ burstEvents = 0 /\ lsNotes[curDay] # Null) =>
    notesText = lsNotes[curDay][1]

\* C4 witness: day 1 reloaded with the stored note "a" while the empty
\* string is what was last written for day 2.
C4_Witness ==
  /\ loaded /\ page = "day" /\ curDay = 1 /\ lastOp.op = "init"
  /\ lsNotes[1] = <<<<"a">>>> /\ notesText = <<"a">>
  /\ lsNotes[2] = <<<<>>>>

\* C4 witness of the empty case: a reloaded day whose stored note is the
\* empty string shows an empty textarea.
C4_WitnessEmpty ==
  /\ loaded /\ page = "day" /\ lastOp.op = "init"
  /\ lsNotes[curDay] = <<<<>>>> /\ notesText = <<>>

\* C5 as stated: setLanguage(L) with L the current in-memory language leaves
\* the in-memory language, the persisted preference, body's data-lang, the
\* active language buttons and the progress map unchanged.
C5_SetSameLanguageNoChange ==
  [][\A lang \in LangButtons :
       (SetLanguage(lang) /\ lang = currentLang) =>
         /\ currentLang' = currentLang
         /\ lsLang' = lsLang
         /\ bodyLang' = bodyLang
         /\ activeLangBtns' = activeLangBtns
         /\ lsProgress' = lsProgress]_vars

\* C5 amended: setLanguage(L) with L the current in-memory language leaves
\* the in-memory language, body's data-lang, the active language buttons and
\* the progress map unchanged; the persisted preference is L afterwards: it
\* was L already, or none was stored and L is now written.
C5_SetSameLanguage ==
  [][\A lang \in LangButtons :
       (SetLanguage(lang) /\ lang = currentLang) =>
         /\ currentLang' = currentLang
         /\ lsLang \in {Null, <<lang>>}
         /\ lsLang' = <<lang>>
         /\ bodyLang' = bodyLang
         /\ activeLangBtns' = activeLangBtns
         /\ lsProgress' = lsProgress]_vars

\* C5 witness: setLanguage("hi") was called while the language was "hi".
C5_Witness ==
  /\ lastOp.op = "setLanguage" /\ lastOp.val = "hi" /\ lastOp.prev = "hi"
  /\ currentLang = "hi" /\ lsLang = <<"hi">> /\ bodyLang = "hi"
  /\ activeLangBtns = {"hi"}

\* C7 as stated: when a storage write fails, no exception escapes the handler
\* that made it, the handler completes, and the stored values are unchanged.
C7_WriteFailureCaught ==
  [][(quotaFull /\ quotaFull' /\ opSetItems' > 0) =>
       /\ ~escaped'
       /\ <<lsLang, lsProgress, lsNotes>>' = <<lsLang, lsProgress, lsNotes>>]_vars

\* The label the table gives for a language and a state, English when the
\* language has no entry for the state.
TableLabel(lang, state) ==
  IF state \in DOMAIN Labels[lang] THEN Labels[lang][state] ELSE Labels["en"][state]

\* C8: on a day page, right after initDayPage and right after setLanguage,
\* the badge shows the label of (current language, stored state of the day);
\* a day without an entry is stored as "in-progress" after the page load and
\* the badge shows the current language's "In Progress" label.
C8_BadgeLabel ==
  (loaded /\ page = "day" /\ lastOp.op \in {"init", "setLanguage"}) =>
    /\ badgeText = TableLabel(currentLang, CardInitialState(lsProgress, curDay))
    /\ (lastOp.op = "init" /\ lastOp.prev = Undefined) =>
         /\ Lookup(StoredProgress, curDay) = "in-progress"
         /\ badgeText = Labels[currentLang]["in-progress"]

\* C8 witness: on a day page whose day is "completed", setLanguage("hi") has
\* switched the badge from English to the Hindi "completed" label.
C8_Witness ==
  /\ loaded /\ page = "day"
  /\ lastOp.op = "setLanguage" /\ lastOp.val = "hi" /\ lastOp.prev = "en"
  /\ Lookup(StoredProgress, curDay) = "completed"
  /\ badgeText = Labels["hi"]["completed"]

\* C10 as stated: whenever no hide timer is pending, the notes panel has the
\* attribute "hidden" exactly when the toggle button lacks the class "open".
C10_PanelMatchesToggle ==
  (loaded /\ page = "day" /\ hideTimers = 0) => (panelHidden <=> ~toggleOpen)

====
